---------------------------- MODULE Spec2Model ----------------------------
(***************************************************************************)
(* Model of app.py, the 3GPP specification downloader (a Streamlit page).  *)
(*                                                                         *)
(* Python strings are sequences of one-character strings, so that          *)
(* splitting, stripping, number parsing and formatting are computed the    *)
(* way the code computes them.  None is the empty sequence <<>> and a      *)
(* present value v is <<v>> wherever the code holds "value or None".       *)
(* The Korean message texts of the page are rendered in English, the       *)
(* module being ASCII.                                                     *)
(***************************************************************************)
EXTENDS Integers, Sequences, FiniteSets, TLC

VARIABLES
    \* ---- the session of the page --------------------------------------
    results,         \* st.session_state.results
    pdf_cache,       \* st.session_state.pdf_cache: cache key -> bytes
    ts_input,        \* the text area's content when the latest batch started
    target_release,  \* the release selected when the latest batch started
    selected,        \* per result row, the index chosen in its selectbox
    dir_log,         \* per row of the latest batch, the answer its directory GET got
    last_run,        \* the branch the latest click on run took: "none" (no click
                     \* yet) | "batch" | "rejected"
    purged,          \* the latest click on run found records and cache entries and
                     \* left none of them
    n_stale,         \* how many leading records of results predate the latest click on run
    stale_keys,      \* the keys of pdf_cache that predate the latest click on run
    clicks,          \* clicks on a download-preparation button since the latest batch
    gets,            \* artifact GETs issued since the latest batch
    failed,          \* URLs whose artifact GET failed since the latest batch
    retried,         \* URLs fetched again after a failed GET since the latest batch
    \* ---- one call of get_versions -------------------------------------
    gv_resp,         \* the answer of the directory GET
    gv_release,      \* the argument target_release
    gv_sorted,       \* the local versions after line 73
    gv_ret,          \* the returned pair (versions, err)
    gv_pc,           \* "idle" | "call" | "done"
    \* ---- one pass resolve -> build URL -> friendly name ---------------
    u_ts, u_ver, u_etsi, u_range, u_url, u_verstr, u_name, u_pc

session_vars == <<results, pdf_cache, ts_input, target_release, selected, dir_log,
                  last_run, purged, n_stale, stale_keys, clicks, gets, failed, retried>>
gv_vars == <<gv_resp, gv_release, gv_sorted, gv_ret, gv_pc>>
u_vars == <<u_ts, u_ver, u_etsi, u_range, u_url, u_verstr, u_name, u_pc>>
vars == <<session_vars, gv_vars, u_vars>>

(***************************************************************************)
(* Bounds of the model.                                                    *)
(***************************************************************************)
MaxTokens == 2      \* pieces of text the user types into the text area
MaxClicks == 2      \* download-preparation clicks followed within one batch
MaxHrefs == 3       \* anchors of a directory listing handed to get_versions

(***************************************************************************)
(* Python values.                                                          *)
(***************************************************************************)
None == <<>>
Some(v) == <<v>>
IsNone(o) == Len(o) = 0
Get(o) == o[1]

DigitChars == <<"0", "1", "2", "3", "4", "5", "6", "7", "8", "9">>
IsDigit(c) == \E d \in 1..10 : DigitChars[d] = c
DigitVal(c) == (CHOOSE d \in 1..10 : DigitChars[d] = c) - 1
IsSpace(c) == c \in {" ", "\t", "\n"}

AllDigits(s, a, b) == \A i \in a..b : IsDigit(s[i])

\* int(s) for a string of digits
RECURSIVE ParseInt(_)
ParseInt(s) ==
    IF s = <<>> THEN 0
    ELSE ParseInt(SubSeq(s, 1, Len(s) - 1)) * 10 + DigitVal(s[Len(s)])

\* str(n), n >= 0
RECURSIVE IntToStr(_)
IntToStr(n) ==
    IF n < 10 THEN <<DigitChars[n + 1]>>
    ELSE IntToStr(n \div 10) \o <<DigitChars[(n % 10) + 1]>>

\* f"{n:0{w}d}"
RECURSIVE ZeroPad(_, _)
ZeroPad(s, w) == IF Len(s) >= w THEN s ELSE ZeroPad(<<"0">> \o s, w)

\* s.strip(): whitespace off both ends
RECURSIVE LStrip(_)
LStrip(s) == IF s # <<>> /\ IsSpace(s[1]) THEN LStrip(Tail(s)) ELSE s
RECURSIVE RStrip(_)
RStrip(s) ==
    IF s # <<>> /\ IsSpace(s[Len(s)]) THEN RStrip(SubSeq(s, 1, Len(s) - 1)) ELSE s
Strip(s) == RStrip(LStrip(s))

\* s.strip(c)
RECURSIVE LStripChar(_, _)
LStripChar(s, c) == IF s # <<>> /\ s[1] = c THEN LStripChar(Tail(s), c) ELSE s
RECURSIVE RStripChar(_, _)
RStripChar(s, c) ==
    IF s # <<>> /\ s[Len(s)] = c THEN RStripChar(SubSeq(s, 1, Len(s) - 1), c) ELSE s
StripChar(s, c) == RStripChar(LStripChar(s, c), c)

\* s.split(c): every occurrence of c separates, empty pieces are kept
RECURSIVE SplitAcc(_, _, _, _)
SplitAcc(s, c, i, cur) ==
    IF i > Len(s) THEN <<cur>>
    ELSE IF s[i] = c THEN <<cur>> \o SplitAcc(s, c, i + 1, <<>>)
    ELSE SplitAcc(s, c, i + 1, Append(cur, s[i]))
SplitChar(s, c) == SplitAcc(s, c, 1, <<>>)

\* s.replace(c, "")
RemoveChar(s, c) == SelectSeq(s, LAMBDA x : x # c)

\* s.startswith(p)
StartsWith(s, p) == Len(s) >= Len(p) /\ SubSeq(s, 1, Len(p)) = p

\* the elements of a list, in order, that satisfy Test
SetOf(s) == {s[i] : i \in DOMAIN s}


(***************************************************************************)
(* Identifier resolver and artifact naming.                                *)
(***************************************************************************)
BaseUrl ==
    <<"h", "t", "t", "p", "s", ":", "/", "/", "w", "w", "w", ".", "e", "t", "s", "i",
      ".", "o", "r", "g", "/", "d", "e", "l", "i", "v", "e", "r", "/", "e", "t", "s",
      "i", "_", "t", "s", "/">>

\* the same with the "+ 100" of line 47 left out
ts_to_etsi_no_offset(ts_number) ==
    LET parts == SplitChar(Strip(ts_number), ".")
        series == ParseInt(parts[1])
        num == ParseInt(parts[2])
        etsi_num == IntToStr(series) \o ZeroPad(IntToStr(num), 3)
        series_base == (ParseInt(etsi_num) \div 100) * 100
    IN  [etsi_num |-> etsi_num,
         series_range |-> IntToStr(series_base) \o <<"_">> \o IntToStr(series_base + 99)]

ts_to_etsi(ts_number) ==
    LET parts == SplitChar(Strip(ts_number), ".")
        series == ParseInt(parts[1])
        num == ParseInt(parts[2])
        etsi_num == IntToStr(series + 100) \o ZeroPad(IntToStr(num), 3)
        series_base == (ParseInt(etsi_num) \div 100) * 100
    IN  [etsi_num |-> etsi_num,
         series_range |-> IntToStr(series_base) \o <<"_">> \o IntToStr(series_base + 99)]

build_pdf_url(etsi_num, series_range, ver_dir) ==
    LET ver_str == SplitChar(ver_dir, "_")[1]
        ver_compact == RemoveChar(ver_str, ".")
        filename == <<"t", "s", "_">> \o etsi_num \o <<"v">> \o ver_compact
                    \o <<"p", ".", "p", "d", "f">>
    IN  [url |-> BaseUrl \o series_range \o <<"/">> \o etsi_num \o <<"/">> \o ver_dir
                 \o <<"/">> \o filename,
         ver_str |-> ver_str]

friendly_name(ts, ver_str) ==
    <<"T", "S", " ">> \o ts \o <<" ", "V">> \o ver_str \o <<".", "p", "d", "f">>

cache_key(ts, ver_str) == ts \o <<"_">> \o ver_str

(***************************************************************************)
(* SpecResolve: one identifier and one version entry taken through         *)
(* ts_to_etsi, build_pdf_url and the friendly name.                        *)
(***************************************************************************)
Ts23501 == <<"2", "3", ".", "5", "0", "1">>
Ts38331 == <<"3", "8", ".", "3", "3", "1">>
Ts24501 == <<"2", "4", ".", "5", "0", "1">>
Ver23_5_0 == <<"2", "3", ".", "5", ".", "0", "_", "6", "0">>
Ver19_05_00 == <<"1", "9", ".", "0", "5", ".", "0", "0", "_", "6", "0">>

TsPool ==
    {Ts23501, Ts38331, Ts24501,
     <<"9", ".", "5">>,
     <<"3", "6", ".", "1", "0", "0", "0">>,
     <<"0", "0", "7", ".", "0", "1">>,
     <<"0", ".", "0">>}

VerPool ==
    {Ver23_5_0, Ver19_05_00,
     <<"2", "3", ".", "4", ".", "1", "_", "5", "9">>,
     <<"1", "8", ".", "1", ".", "0", "_", "6", "1">>,
     <<"0", ".", "0", ".", "1", "_", "1">>}

InitSession ==
    /\ results = <<>>
    /\ pdf_cache = [k \in {} |-> <<>>]
    /\ ts_input = <<>>
    /\ target_release = None
    /\ selected = <<>>
    /\ dir_log = <<>>
    /\ last_run = "none"
    /\ purged = FALSE
    /\ n_stale = 0
    /\ stale_keys = {}
    /\ clicks = 0
    /\ gets = 0
    /\ failed = {}
    /\ retried = {}

IdleVersions ==
    /\ gv_resp = [kind |-> "error", hrefs |-> <<>>]
    /\ gv_release = None
    /\ gv_sorted = <<>>
    /\ gv_ret = [versions |-> None, err |-> None]
    /\ gv_pc = "idle"

IdleResolve ==
    /\ u_ts = <<>>
    /\ u_ver = <<>>
    /\ u_etsi = <<>>
    /\ u_range = <<>>
    /\ u_url = <<>>
    /\ u_verstr = <<>>
    /\ u_name = <<>>
    /\ u_pc = "idle"

InitResolve ==
    /\ InitSession
    /\ IdleVersions
    /\ u_ts \in TsPool
    /\ u_ver \in VerPool
    /\ u_etsi = <<>>
    /\ u_range = <<>>
    /\ u_url = <<>>
    /\ u_verstr = <<>>
    /\ u_name = <<>>
    /\ u_pc = "start"

Resolve ==
    /\ u_pc = "start"
    /\ LET r == ts_to_etsi(u_ts)
       IN  /\ u_etsi' = r.etsi_num
           /\ u_range' = r.series_range
    /\ u_pc' = "resolved"
    /\ UNCHANGED <<u_ts, u_ver, u_url, u_verstr, u_name, session_vars, gv_vars>>

BuildUrl ==
    /\ u_pc = "resolved"
    /\ LET b == build_pdf_url(u_etsi, u_range, u_ver)
       IN  /\ u_url' = b.url
           /\ u_verstr' = b.ver_str
           /\ u_name' = friendly_name(u_ts, b.ver_str)
    /\ u_pc' = "built"
    /\ UNCHANGED <<u_ts, u_ver, u_etsi, u_range, session_vars, gv_vars>>

NextResolve == Resolve \/ BuildUrl

SpecResolve == InitResolve /\ [][NextResolve]_vars

\* the last n characters of s
Suffix(s, n) == SubSeq(s, Len(s) - n + 1, Len(s))
EndsWith(s, t) == Len(s) >= Len(t) /\ Suffix(s, Len(t)) = t

\* C6 as stated: 23.501 resolves to 23501 in 23500_23599, 38.331 to 38331 in
\* 38300_38399, and the artifact URL of 23.501 at 23.5.0_60 ends in
\* /23500_23599/23501/23.5.0_60/ts_23501v2350p.pdf.
C6_AsStated ==
    /\ (u_pc \in {"resolved", "built"} /\ u_ts = Ts23501)
         => /\ u_etsi = <<"2", "3", "5", "0", "1">>
            /\ u_range = <<"2", "3", "5", "0", "0", "_", "2", "3", "5", "9", "9">>
    /\ (u_pc \in {"resolved", "built"} /\ u_ts = Ts38331)
         => /\ u_etsi = <<"3", "8", "3", "3", "1">>
            /\ u_range = <<"3", "8", "3", "0", "0", "_", "3", "8", "3", "9", "9">>
    /\ (u_pc = "built" /\ u_ts = Ts23501 /\ u_ver = Ver23_5_0)
         => EndsWith(u_url,
              <<"/", "2", "3", "5", "0", "0", "_", "2", "3", "5", "9", "9", "/",
                "2", "3", "5", "0", "1", "/",
                "2", "3", ".", "5", ".", "0", "_", "6", "0", "/",
                "t", "s", "_", "2", "3", "5", "0", "1", "v", "2", "3", "5", "0",
                "p", ".", "p", "d", "f">>)

\* C6 amended: the series is offset by 100, so 23.501 resolves to 123501 in
\* 123500_123599, 38.331 to 138331 in 138300_138399, and the artifact URL of
\* 23.501 at 23.5.0_60 ends in /123500_123599/123501/23.5.0_60/ts_123501v2350p.pdf.
C6_ResolveWithOffset ==
    /\ (u_pc \in {"resolved", "built"} /\ u_ts = Ts23501)
         => /\ u_etsi = <<"1", "2", "3", "5", "0", "1">>
            /\ u_range = <<"1", "2", "3", "5", "0", "0", "_",
                           "1", "2", "3", "5", "9", "9">>
    /\ (u_pc \in {"resolved", "built"} /\ u_ts = Ts38331)
         => /\ u_etsi = <<"1", "3", "8", "3", "3", "1">>
            /\ u_range = <<"1", "3", "8", "3", "0", "0", "_",
                           "1", "3", "8", "3", "9", "9">>
    /\ (u_pc = "built" /\ u_ts = Ts23501 /\ u_ver = Ver23_5_0)
         => EndsWith(u_url,
              <<"/", "1", "2", "3", "5", "0", "0", "_", "1", "2", "3", "5", "9", "9", "/",
                "1", "2", "3", "5", "0", "1", "/",
                "2", "3", ".", "5", ".", "0", "_", "6", "0", "/",
                "t", "s", "_", "1", "2", "3", "5", "0", "1", "v", "2", "3", "5", "0",
                "p", ".", "p", "d", "f">>)

\* 23.501 has been resolved and its URL at 23.5.0_60 built
C6_Witness == u_pc = "built" /\ u_ts = Ts23501 /\ u_ver = Ver23_5_0

\* every dot-separated numeric segment re-rendered without leading zeros
RECURSIVE JoinDots(_)
JoinDots(segs) ==
    IF Len(segs) = 1 THEN segs[1]
    ELSE segs[1] \o <<".">> \o JoinDots(Tail(segs))
Unpadded(label) ==
    LET segs == SplitChar(label, ".")
    IN  JoinDots([i \in DOMAIN segs |-> IntToStr(ParseInt(segs[i]))])

\* C7: the friendly name is "TS <identifier> V<label>.pdf" with every numeric
\* segment of the version label rendered without leading zeros.
C7_FriendlyNameUnpadded ==
    u_pc = "built"
      => u_name = <<"T", "S", " ">> \o u_ts \o <<" ", "V">>
                  \o Unpadded(SplitChar(u_ver, "_")[1]) \o <<".", "p", "d", "f">>

(***************************************************************************)
(* Version lister.  The answer of the directory GET is                     *)
(*   [kind |-> "error"]           requests raised (network, timeout, 4xx)  *)
(*   [kind |-> "ok", hrefs |-> h] the targets of the page's anchors        *)
(*   [kind |-> "raise"]           an exception that get_versions does not  *)
(*                                catch (it reaches the caller's except)   *)
(***************************************************************************)
release_options ==
    <<None, Some(<<"1", "9">>), Some(<<"1", "8">>), Some(<<"1", "7">>),
      Some(<<"1", "6">>), Some(<<"1", "5">>)>>

DirUrl(etsi_num, series_range) ==
    BaseUrl \o series_range \o <<"/">> \o etsi_num \o <<"/">>

\* str(e) of the exception requests raised
RequestError == <<"request failed">>
ErrNoVersions(dir_url) == <<"no version list (">> \o dir_url \o <<")">>
ErrNoRelease(rel) == <<"R", "e", "l", "-">> \o rel \o <<" no version">>

\* re.search(r"\d+\.\d+\.\d+_\d+", href)
HasVersionPattern(h) ==
    \E p1, p2, p3 \in 1..Len(h) :
        /\ h[p1] = "." /\ h[p2] = "." /\ h[p3] = "_"
        /\ p1 >= 2 /\ IsDigit(h[p1 - 1])
        /\ p1 + 1 < p2 /\ AllDigits(h, p1 + 1, p2 - 1)
        /\ p2 + 1 < p3 /\ AllDigits(h, p2 + 1, p3 - 1)
        /\ p3 < Len(h) /\ IsDigit(h[p3 + 1])

\* href.strip("/").split("/")[-1]
Candidate(h) ==
    LET segs == SplitChar(StripChar(h, "/"), "/")
    IN  segs[Len(segs)]

\* the list versions before line 67
Candidates(hrefs) ==
    LET hits == SelectSeq(hrefs, HasVersionPattern)
    IN  [i \in DOMAIN hits |-> Candidate(hits[i])]

\* tuple(int(n) for n in re.findall(r"\d+", v))
RECURSIVE KeyAcc(_, _, _)
KeyAcc(s, i, cur) ==
    LET done == IF cur = <<>> THEN <<>> ELSE <<ParseInt(cur)>>
    IN  IF i > Len(s) THEN done
        ELSE IF IsDigit(s[i]) THEN KeyAcc(s, i + 1, Append(cur, s[i]))
        ELSE done \o KeyAcc(s, i + 1, <<>>)
version_key(v) == KeyAcc(v, 1, <<>>)

\* a < b for Python tuples of integers
RECURSIVE TupleLess(_, _)
TupleLess(a, b) ==
    IF a = <<>> THEN b # <<>>
    ELSE IF b = <<>> THEN FALSE
    ELSE IF a[1] # b[1] THEN a[1] < b[1]
    ELSE TupleLess(Tail(a), Tail(b))

\* every listing of the set S without repetition
Perms(S) ==
    {p \in [1..Cardinality(S) -> S] : \A i, j \in DOMAIN p : i # j => p[i] # p[j]}

\* the same without reverse=True
sort_versions_ascending(cands) ==
    {p \in Perms(SetOf(cands)) :
        \A i \in 1..(Len(p) - 1) : ~TupleLess(version_key(p[i + 1]), version_key(p[i]))}

\* sorted(set(versions), key=version_key, reverse=True): the sort is stable and
\* the iteration order of a set of strings is not fixed, so entries with equal
\* keys come out in any order.
sort_versions(cands) ==
    {p \in Perms(SetOf(cands)) :
        \A i \in 1..(Len(p) - 1) : ~TupleLess(version_key(p[i]), version_key(p[i + 1]))}

\* the same with the "." of line 76 left out
filter_release_no_dot(versions, rel) ==
    SelectSeq(versions, LAMBDA v : StartsWith(v, rel))

\* [v for v in versions if v.startswith(target_release + ".")]
filter_release(versions, rel) ==
    SelectSeq(versions, LAMBDA v : StartsWith(v, rel \o <<".">>))

\* lines 75-81, for one outcome sv of the sort
after_sort(sv, rel) ==
    IF ~IsNone(rel) /\ Get(rel) # <<>>
    THEN LET filtered == filter_release(sv, Get(rel))
         IN  IF filtered = <<>>
             THEN [versions |-> None, err |-> Some(ErrNoRelease(Get(rel))), sorted |-> sv]
             ELSE [versions |-> Some(filtered), err |-> None, sorted |-> sv]
    ELSE [versions |-> Some(sv), err |-> None, sorted |-> sv]

\* the pairs (versions, err) a call may return, each with the local list it sorted
get_versions(etsi_num, series_range, rel, resp) ==
    IF resp.kind = "error"
    THEN {[versions |-> None, err |-> Some(RequestError), sorted |-> <<>>]}
    ELSE LET cands == Candidates(resp.hrefs)
         IN  IF cands = <<>>
             THEN {[versions |-> None,
                    err |-> Some(ErrNoVersions(DirUrl(etsi_num, series_range))),
                    sorted |-> <<>>]}
             ELSE {after_sort(sv, rel) : sv \in sort_versions(cands)}

(***************************************************************************)
(* SpecVersions: one call of get_versions on a listing of up to MaxHrefs   *)
(* anchors.                                                                *)
(***************************************************************************)
V10_0_0 == <<"1", "0", ".", "0", ".", "0", "_", "1">>
V2_10_0 == <<"2", ".", "1", "0", ".", "0", "_", "1">>
V2_1_0 == <<"2", ".", "1", ".", "0", "_", "1">>
V16_1_0 == <<"1", "6", ".", "1", ".", "0", "_", "6", "0">>
V16_01_0 == <<"1", "6", ".", "0", "1", ".", "0", "_", "6", "0">>
V160_0_0 == <<"1", "6", "0", ".", "0", ".", "0", "_", "1">>
Rel16 == <<"1", "6">>

HrefPool ==
    {V10_0_0 \o <<"/">>, V2_10_0 \o <<"/">>, V2_1_0 \o <<"/">>,
     <<"/", "x", "/">> \o V2_1_0 \o <<"/">>,
     V16_1_0 \o <<"/">>, V16_01_0 \o <<"/">>, V160_0_0 \o <<"/">>,
     <<".", ".", "/">>}

SeqsUpTo(S, n) == UNION {[1..k -> S] : k \in 0..n}

InitVersions ==
    /\ InitSession
    /\ IdleResolve
    /\ gv_resp \in {[kind |-> "error", hrefs |-> <<>>]}
                   \cup {[kind |-> "ok", hrefs |-> h] : h \in SeqsUpTo(HrefPool, MaxHrefs)}
    /\ gv_release \in SetOf(release_options)
    /\ gv_sorted = <<>>
    /\ gv_ret = [versions |-> None, err |-> None]
    /\ gv_pc = "call"

GetVersions ==
    /\ gv_pc = "call"
    /\ \E r \in get_versions(ts_to_etsi(Ts23501).etsi_num,
                             ts_to_etsi(Ts23501).series_range, gv_release, gv_resp) :
          /\ gv_sorted' = r.sorted
          /\ gv_ret' = [versions |-> r.versions, err |-> r.err]
    /\ gv_pc' = "done"
    /\ UNCHANGED <<gv_resp, gv_release, session_vars, u_vars>>

NextVersions == GetVersions

SpecVersions == InitVersions /\ [][NextVersions]_vars

Returned == gv_pc = "done" /\ ~IsNone(gv_ret.versions)

\* C4 as stated: a successful call returns a sequence strictly descending under
\* numeric-tuple comparison of the integers in each entry; no two returned
\* entries have equal integer tuples.
C4_AsStated ==
    Returned =>
        LET v == Get(gv_ret.versions)
        IN  \A i, j \in DOMAIN v :
               i < j => TupleLess(version_key(v[j]), version_key(v[i]))

\* C4 amended: a successful call returns a sequence that never ascends under
\* numeric-tuple comparison (10.0.0_1 before 2.10.0_1 before 2.1.0_1) and holds
\* no string twice; entries that differ as strings but have equal integer tuples
\* (16.1.0_60 and 16.01.0_60) are all returned, next to each other.
C4_DescendingWithTies ==
    Returned =>
        LET v == Get(gv_ret.versions)
        IN  /\ \A i, j \in DOMAIN v :
                  i < j => /\ ~TupleLess(version_key(v[i]), version_key(v[j]))
                           /\ v[i] # v[j]
            /\ IsNone(gv_release) => SetOf(v) = SetOf(Candidates(gv_resp.hrefs))

\* a call returned two entries with equal integer tuples ahead of 2.10.0_1, which
\* string comparison would have put first
C4_Witness ==
    /\ Returned
    /\ Get(gv_ret.versions) = <<V16_01_0, V16_1_0, V2_10_0>>

\* C5: with a release filter f the call returns exactly the entries of the
\* sorted, deduplicated candidates that start with f followed by ".", in their
\* order; when there is none it returns the ReleaseNotFound error and no list.
C5_ReleaseFilter ==
    (gv_pc = "done" /\ ~IsNone(gv_release) /\ gv_sorted # <<>>) =>
        LET f == Get(gv_release) \o <<".">>
            want == SelectSeq(gv_sorted,
                        LAMBDA v : Len(v) >= Len(f) /\ \A i \in DOMAIN f : v[i] = f[i])
        IN  IF want = <<>>
            THEN /\ IsNone(gv_ret.versions)
                 /\ gv_ret.err = Some(ErrNoRelease(Get(gv_release)))
            ELSE /\ gv_ret.versions = Some(want)
                 /\ IsNone(gv_ret.err)

\* release 16 was asked of a listing holding 160.0.0_1 and a 16.x entry, and the
\* 160 entry was left out
C5_Witness ==
    /\ gv_pc = "done"
    /\ gv_release = Some(Rel16)
    /\ V160_0_0 \in SetOf(gv_sorted)
    /\ ~IsNone(gv_ret.versions)
    /\ V160_0_0 \notin SetOf(Get(gv_ret.versions))

(***************************************************************************)
(* The page: the run handler (lines 99-125) and the result rows (lines     *)
(* 128-175).                                                               *)
(***************************************************************************)
IsSep(c) == c \in {",", "\n"}

\* re.split(r"[,\n]+", text): a run of separators separates once; a run at
\* either end leaves an empty piece there
RECURSIVE ReSplitAcc(_, _, _)
ReSplitAcc(s, i, cur) ==
    IF i > Len(s) THEN <<cur>>
    ELSE IF IsSep(s[i])
         THEN IF i > 1 /\ IsSep(s[i - 1])
              THEN ReSplitAcc(s, i + 1, cur)
              ELSE <<cur>> \o ReSplitAcc(s, i + 1, <<>>)
    ELSE ReSplitAcc(s, i + 1, Append(cur, s[i]))
ReSplit(s) == ReSplitAcc(s, 1, <<>>)

\* re.match(r"^\d+\.\d+$", t) on a stripped piece
match_ts(t) ==
    \E k \in 2..(Len(t) - 1) :
        /\ t[k] = "."
        /\ AllDigits(t, 1, k - 1)
        /\ AllDigits(t, k + 1, Len(t))

\* lines 100-101
parse_ts_list(text) ==
    LET raw == ReSplit(text)
        stripped == [i \in DOMAIN raw |-> Strip(raw[i])]
    IN  SelectSeq(stripped, match_ts)

\* str(e) of an exception caught at line 118
UnexpectedError == <<"unexpected error">>

\* the record of lines 112-117
ok_record(ts, r, gv) ==
    [ts |-> ts,
     etsi_num |-> Some(r.etsi_num),
     series_range |-> Some(r.series_range),
     versions |-> gv.versions,
     all_labels |-> IF ~IsNone(gv.versions)
                    THEN [i \in DOMAIN Get(gv.versions) |->
                              SplitChar(Get(gv.versions)[i], "_")[1]]
                    ELSE <<>>,
     error |-> gv.err]

\* the record of lines 119-123
error_record(ts) ==
    [ts |-> ts,
     etsi_num |-> None,
     series_range |-> None,
     versions |-> None,
     all_labels |-> <<>>,
     error |-> Some(UnexpectedError)]

\* the except branch with its append left out
on_exception_swallowed(acc, ts) == acc

\* lines 118-123
on_exception(acc, ts) == Append(acc, error_record(ts))

\* lines 108-123: the lists the loop may leave, resps[i] being the answer the
\* directory GET of the i-th identifier gets
RECURSIVE batch_loop(_, _, _, _)
batch_loop(acc, ts_list, rel, resps) ==
    IF ts_list = <<>> THEN {acc}
    ELSE LET ts == Head(ts_list)
             resp == Head(resps)
             r == ts_to_etsi(ts)
         IN  IF resp.kind = "raise"
             THEN batch_loop(on_exception(acc, ts), Tail(ts_list), rel, Tail(resps))
             ELSE UNION {batch_loop(Append(acc, ok_record(ts, r, gv)),
                                    Tail(ts_list), rel, Tail(resps)) :
                            gv \in get_versions(r.etsi_num, r.series_range, rel, resp)}

EmptyCache == [k \in {} |-> <<>>]

\* line 106 missing: the list is appended to as it stands
results_kept(old) == old

\* line 106
cleared_results(old) == <<>>

\* line 107 missing: the cache is kept as it stands
cache_kept(old) == old

\* line 107
cleared_cache(old) == EmptyCache

\* ---- what the user may type, and what the remote may answer -------------
Ts38331Padded == <<"\n", " ">> \o Ts38331 \o <<" ">>
NotATs == <<"2", "3", ".", "x">>
BlankText == <<" ", "\n">>
Pieces == {Ts23501, Ts38331Padded}
\* a piece that is no identifier between two that are
MixedText == Ts23501 \o <<",">> \o NotATs \o <<"\n">> \o Ts38331Padded

RECURSIVE TextsOf(_)
TextsOf(n) ==
    IF n = 1 THEN Pieces
    ELSE {t \o <<",">> \o p : t \in TextsOf(n - 1), p \in Pieces}

\* SpecRun: every text of up to MaxTokens pieces
InputTexts ==
    {BlankText, NotATs, MixedText} \cup UNION {TextsOf(n) : n \in 1..MaxTokens}

\* Spec: one identifier, two identifiers, the same identifier twice, no valid
\* identifier, blank
SessionTexts ==
    {Ts23501,
     Ts23501 \o <<",">> \o Ts38331Padded,
     Ts23501 \o <<",", "\n">> \o Ts23501,
     NotATs,
     BlankText}

V19_1_0 == <<"1", "9", ".", "1", ".", "0", "_", "6", "0">>
V18_5_0_60 == <<"1", "8", ".", "5", ".", "0", "_", "6", "0">>
V18_5_0_61 == <<"1", "8", ".", "5", ".", "0", "_", "6", "1">>
Rel18 == <<"1", "8">>
Listing == <<<<".", ".", "/">>, V18_5_0_60 \o <<"/">>, V19_1_0 \o <<"/">>,
             V18_5_0_61 \o <<"/">>>>
EmptyListing == <<<<".", ".", "/">>>>

RespError == [kind |-> "error", hrefs |-> <<>>]
RespRaise == [kind |-> "raise", hrefs |-> <<>>]
RespListing == [kind |-> "ok", hrefs |-> Listing]
RespEmpty == [kind |-> "ok", hrefs |-> EmptyListing]

Responses == {RespError, RespRaise, RespListing, RespEmpty}
SessionResponses == {RespError, RespListing}
SessionReleases == {None, Some(Rel18)}
WideReleases == {None, Some(Rel18), Some(<<"1", "5">>)}

\* every batch the inputs T, R and the answers Q allow: the text, the release,
\* the answer to each identifier's directory GET and the records appended
BatchesOf(T, R, Q) ==
    UNION {UNION {UNION {
        {[text |-> t, rel |-> r, resps |-> q, recs |-> x] :
            x \in batch_loop(<<>>, parse_ts_list(t), r, q)} :
        q \in [1..Len(parse_ts_list(t)) -> Q]} :
        r \in R} :
        t \in {t \in T : Strip(t) # <<>> /\ parse_ts_list(t) # <<>>}}

WideBatches == BatchesOf(InputTexts, WideReleases, Responses)
SessionBatches == BatchesOf(SessionTexts, SessionReleases, SessionResponses)
AllTexts == InputTexts \cup SessionTexts

\* ---- the run handler ----------------------------------------------------
\* lines 99-123 with at least one valid identifier, for the batches B
RunBatchOf(B) ==
    \E b \in B :
        /\ results' = cleared_results(results) \o b.recs
        /\ selected' = [i \in DOMAIN results' |-> 1]
        /\ dir_log' = b.resps
        /\ pdf_cache' = cleared_cache(pdf_cache)
        /\ n_stale' = Len(cleared_results(results))
        /\ stale_keys' = DOMAIN pdf_cache'
        /\ purged' = (/\ results # <<>>
                      /\ DOMAIN pdf_cache # {}
                      /\ n_stale' = 0
                      /\ stale_keys' = {})
        /\ last_run' = "batch"
        /\ ts_input' = b.text
        /\ target_release' = b.rel
        /\ clicks' = 0
        /\ gets' = 0
        /\ failed' = {}
        /\ retried' = {}
        /\ UNCHANGED <<gv_vars, u_vars>>

RunBatch == RunBatchOf(SessionBatches)

RunBatchWide == RunBatchOf(WideBatches)

\* lines 99-104: text, but no valid identifier in it (st.error)
RunInvalid ==
    \E text \in AllTexts :
        /\ Strip(text) # <<>>
        /\ parse_ts_list(text) = <<>>
        /\ last_run' = "rejected"
        /\ purged' = FALSE
        /\ n_stale' = Len(results)
        /\ stale_keys' = DOMAIN pdf_cache
        /\ UNCHANGED <<results, pdf_cache, ts_input, target_release, selected, dir_log,
                       clicks, gets, failed, retried, gv_vars, u_vars>>

\* lines 124-125: blank text (st.warning)
RunBlank ==
    \E text \in AllTexts :
        /\ Strip(text) = <<>>
        /\ last_run' = "rejected"
        /\ purged' = FALSE
        /\ n_stale' = Len(results)
        /\ stale_keys' = DOMAIN pdf_cache
        /\ UNCHANGED <<results, pdf_cache, ts_input, target_release, selected, dir_log,
                       clicks, gets, failed, retried, gv_vars, u_vars>>

\* ---- the result rows ----------------------------------------------------
\* line 137: the row shows its error and nothing else
HasError(item) == ~IsNone(item.error) /\ Get(item.error) # <<>>

\* all_labels.index(label)
IndexOf(labels, label) ==
    CHOOSE i \in DOMAIN labels :
        /\ labels[i] = label
        /\ \A j \in 1..(i - 1) : labels[j] # label

\* lines 142-154 for the row of item, j being the option chosen in its selectbox
row_view(item, j) ==
    LET selected_label == item.all_labels[j]
        selected_ver_dir == Get(item.versions)[IndexOf(item.all_labels, selected_label)]
        b == build_pdf_url(Get(item.etsi_num), Get(item.series_range), selected_ver_dir)
    IN  [pdf_url |-> b.url,
         ver_str |-> b.ver_str,
         friendly_name |-> friendly_name(item.ts, b.ver_str),
         cache_key |-> cache_key(item.ts, b.ver_str)]

\* the body the remote serves at url
Body(url) == <<"%PDF">> \o url

\* fetch_pdf trying once more after a failure
fetch_pdf_retry(pdf_url, outcome) ==
    IF outcome = "fail" THEN [content |-> None, requests |-> <<pdf_url, pdf_url>>]
    ELSE IF outcome = "empty" THEN [content |-> Some(<<>>), requests |-> <<pdf_url>>]
    ELSE [content |-> Some(Body(pdf_url)), requests |-> <<pdf_url>>]

\* lines 89-96: the content returned (None after an exception) and the GETs issued
fetch_pdf(pdf_url, outcome) ==
    IF outcome = "fail" THEN [content |-> None, requests |-> <<pdf_url>>]
    ELSE IF outcome = "empty" THEN [content |-> Some(<<>>), requests |-> <<pdf_url>>]
    ELSE [content |-> Some(Body(pdf_url)), requests |-> <<pdf_url>>]

Put(cache, key, bytes) ==
    [k \in DOMAIN cache \cup {key} |-> IF k = key THEN bytes ELSE cache[k]]

\* line 172 without the test of line 171
store_unchecked(cache, key, pdf_bytes) ==
    Put(cache, key, IF IsNone(pdf_bytes) THEN <<>> ELSE Get(pdf_bytes))

\* lines 171-172
store_fetched(cache, key, pdf_bytes) ==
    IF ~IsNone(pdf_bytes) /\ Get(pdf_bytes) # <<>>
    THEN Put(cache, key, Get(pdf_bytes))
    ELSE cache

\* lines 137-140 and 159-166: the bytes the row of item offers for saving
row_bytes(item, j, cache) ==
    IF HasError(item) THEN None
    ELSE IF row_view(item, j).cache_key \in DOMAIN cache
         THEN Some(cache[row_view(item, j).cache_key])
         ELSE None

\* line 147: the user picks option j in the selectbox of row i.  The rows are
\* taken one by one: what Streamlit does with two selectboxes of one key (two
\* error-free rows of the same identifier) is not narrowed down here.
Select ==
    \E i \in DOMAIN results :
        /\ ~HasError(results[i])
        /\ \E j \in DOMAIN results[i].all_labels :
              /\ j # selected[i]
              /\ selected' = [selected EXCEPT ![i] = j]
        /\ UNCHANGED <<results, pdf_cache, ts_input, target_release, dir_log, last_run,
                       purged, n_stale, stale_keys, clicks, gets, failed, retried,
                       gv_vars, u_vars>>

\* lines 167-173: the user clicks the download-preparation button of row i,
\* shown while the row's key is not in the cache
Prepare ==
    \E i \in DOMAIN results, outcome \in {"ok", "fail", "empty"} :
        /\ ~HasError(results[i])
        /\ clicks < MaxClicks
        /\ LET v == row_view(results[i], selected[i])
               f == fetch_pdf(v.pdf_url, outcome)
           IN  /\ v.cache_key \notin DOMAIN pdf_cache
               /\ pdf_cache' = store_fetched(pdf_cache, v.cache_key, f.content)
               /\ gets' = gets + Len(f.requests)
               /\ failed' = IF outcome = "fail" THEN failed \cup {v.pdf_url} ELSE failed
               /\ retried' = IF v.pdf_url \in failed THEN retried \cup {v.pdf_url}
                             ELSE retried
        /\ clicks' = clicks + 1
        /\ UNCHANGED <<results, ts_input, target_release, selected, dir_log, last_run,
                       purged, n_stale, stale_keys, gv_vars, u_vars>>

Init == InitSession /\ IdleVersions /\ IdleResolve

Next == RunBatch \/ RunInvalid \/ RunBlank \/ Select \/ Prepare

Spec == Init /\ [][Next]_vars

NextRun == RunBatchWide \/ RunInvalid \/ RunBlank

SpecRun == Init /\ [][NextRun]_vars

(***************************************************************************)
(* Claims about the page.                                                  *)
(***************************************************************************)
\* the candidates of a directory answer that the selected release keeps
Kept(resp) ==
    {c \in SetOf(Candidates(resp.hrefs)) :
        IsNone(target_release) \/ StartsWith(c, Get(target_release) \o <<".">>)}

\* C1: after a batch the results list holds one record per valid token of the
\* text, in the order of the tokens; the record of an identifier carries an
\* error exactly when its own resolve or directory listing failed (request
\* error, no versions, release not found), whatever happened to the others.
C1_OneRecordPerToken ==
    LET ts_list == parse_ts_list(ts_input)
    IN  ts_list # <<>> =>
          /\ Len(results) = Len(ts_list)
          /\ Len(dir_log) = Len(ts_list)
          /\ \A i \in DOMAIN ts_list :
                /\ results[i].ts = ts_list[i]
                /\ HasError(results[i])
                     <=> (dir_log[i].kind # "ok" \/ Kept(dir_log[i]) = {})
                /\ HasError(results[i])
                     => IsNone(results[i].versions) /\ results[i].all_labels = <<>>
                /\ ~HasError(results[i])
                     => /\ SetOf(Get(results[i].versions)) = Kept(dir_log[i])
                        /\ Len(results[i].all_labels) = Len(Get(results[i].versions))

\* the text with a piece that is no identifier gave two records, in the order
\* typed; the first failed and the second did not
C1_Witness ==
    /\ ts_input = MixedText
    /\ Len(results) = 2
    /\ results[1].ts = Ts23501
    /\ results[2].ts = Ts38331
    /\ HasError(results[1])
    /\ ~HasError(results[2])

RowBytes(i) == row_bytes(results[i], selected[i], pdf_cache)
RowUrl(i) == row_view(results[i], selected[i]).pdf_url

\* C2 as stated: when a batch has finished, every record without an error
\* carries the fetched bytes and every record with an error has none.
C2_AsStated ==
    (last_run = "batch" /\ clicks = 0) =>
        \A i \in DOMAIN results :
            HasError(results[i]) <=> IsNone(RowBytes(i))

\* C2 amended: when a batch has finished no record carries bytes (the batch
\* resolves and lists only, the cache is empty); a record without an error gets
\* the bytes of its selected version only once a click on its
\* download-preparation button has fetched a non-empty body, and a record with
\* an error never has bytes.
C2_BytesAfterPrepare ==
    /\ clicks = 0 => DOMAIN pdf_cache = {}
    /\ \A i \in DOMAIN results :
          /\ HasError(results[i]) => IsNone(RowBytes(i))
          /\ ~IsNone(RowBytes(i))
               => /\ clicks >= 1
                  /\ Get(RowBytes(i)) # <<>>
                  /\ Get(RowBytes(i)) = Body(RowUrl(i))

\* one row has its bytes after a click, another shows an error
C2_Witness ==
    \E i, j \in DOMAIN results :
        /\ ~IsNone(RowBytes(i))
        /\ HasError(results[j])

\* C3 as stated: after any click on run, whatever the text, nothing of an
\* earlier batch is left in the results list or in the cache.
C3_AsStated ==
    last_run # "none" => n_stale = 0 /\ stale_keys = {}

\* C3 amended: after a click on run whose text holds at least one valid
\* identifier, nothing of an earlier batch is left in the results list or in
\* the cache (a click with a blank text or a text without valid identifier
\* leaves both as they were).
C3_ClearedOnBatch ==
    last_run = "batch" =>
        /\ n_stale = 0
        /\ stale_keys = {}
        /\ Len(results) = Len(dir_log)
        /\ Cardinality(DOMAIN pdf_cache) <= clicks

\* a batch started over records and cache entries of an earlier one
C3_Witness == last_run = "batch" /\ purged

\* C8 as stated: once an artifact fetch has failed within a batch run, no
\* further GET for that artifact is issued before the next batch.
C8_AsStated == retried = {}

\* C8 amended: the code never retries by itself: every click on a
\* download-preparation button issues exactly one GET; after a failed fetch the
\* button stays, so a second click fetches the same artifact again within the
\* same batch run.
C8_OneGetPerClick ==
    /\ gets = clicks
    /\ retried \subseteq failed
    /\ retried # {} => clicks >= 2

\* an artifact whose fetch had failed was fetched again by a second click
C8_Witness == retried # {} /\ last_run = "batch"

\* C9: no two rows of a batch compute the same cache key.
C9_UniqueKeys ==
    \A i, j \in DOMAIN results :
        (i < j /\ ~HasError(results[i]) /\ ~HasError(results[j]))
          => row_view(results[i], selected[i]).cache_key
               # row_view(results[j], selected[j]).cache_key

\* the URL of the first version entry of item that bears label
FirstUrl(item, label) ==
    LET first == CHOOSE n \in DOMAIN item.all_labels :
                     /\ item.all_labels[n] = label
                     /\ \A m \in DOMAIN item.all_labels :
                           item.all_labels[m] = label => n <= m
    IN  build_pdf_url(Get(item.etsi_num), Get(item.series_range),
                      Get(item.versions)[first]).url

CacheAgrees ==
    \A k \in DOMAIN pdf_cache :
        \E i \in DOMAIN results :
            /\ ~HasError(results[i])
            /\ \E n \in DOMAIN results[i].all_labels :
                  LET label == results[i].all_labels[n]
                  IN  /\ k = results[i].ts \o <<"_">> \o label
                      /\ pdf_cache[k] # <<>>
                      /\ pdf_cache[k] = Body(FirstUrl(results[i], label))

\* a step that fetches changes the cache by at most one new entry, and by none
\* when the fetch fails
FetchStep ==
    gets' > gets =>
        /\ \A k \in DOMAIN pdf_cache : k \in DOMAIN pdf_cache' /\ pdf_cache'[k] = pdf_cache[k]
        /\ Cardinality(DOMAIN pdf_cache') <= Cardinality(DOMAIN pdf_cache) + 1
        /\ failed' # failed => pdf_cache' = pdf_cache

\* C10: every key of pdf_cache is "<ts>_<label>" for an error-free record of the
\* current results list and a label of its all_labels, and its value is the
\* non-empty body served at the URL built from the record's first version
\* entry bearing that label; a failed fetch leaves pdf_cache unchanged.
C10_CacheOfCurrentResults == []CacheAgrees /\ [][FetchStep]_vars

\* the second entry bearing label 18.5.0 is selected in a row, and the bytes
\* cached for that row are those of the first entry bearing it
C10_Witness ==
    \E i \in DOMAIN results :
        /\ ~HasError(results[i])
        /\ Len(results[i].all_labels) = 3
        /\ selected[i] = 3
        /\ ~IsNone(RowBytes(i))
        /\ failed # {}
============================================================================
